---- MODULE Spec2Model ----
(***************************************************************************)
(* Model of the two scripts of the repository:                             *)
(*   images/data-ingest/ingest.py  (wait, clear, load places, load people) *)
(*   images/data-output/output.py  (wait, per-country summary)             *)
(* against a relational store with one session at a time.                  *)
(***************************************************************************)
EXTENDS Integers, Sequences, FiniteSets, TLC

\* ------------------------------------------------------------------ bounds
\* Largest max_retries with which wait_for_database is called directly.
MaxAttempts == 12
\* Largest number of rows in places.csv.
MaxPlaces == 2
\* Largest number of rows in people.csv.
MaxPeople == 2
\* Number of successive ingest runs.
MaxRuns == 2

\* -------------------------------------------------------- program constants
\* def wait_for_database(config, max_retries: int = 30)
DefaultMaxRetries == 30

\* ------------------------------------------------------------------ strings
\* A Python str is a sequence of one-character strings.  A CSV cell that pandas
\* read as missing is NaN, a float: it has no .strip() and pd.notna() is false.
NaN == <<"<NaN>">>

IsStr(x) == x # NaN

\* SQL NULL, what the connector sends for Python's None.
NULL == <<"<NULL>">>

RECURSIVE LStrip(_)
LStrip(s) == IF s # <<>> /\ Head(s) = " " THEN LStrip(Tail(s)) ELSE s

RECURSIVE RStrip(_)
RStrip(s) ==
  IF s # <<>> /\ s[Len(s)] = " " THEN RStrip(SubSeq(s, 1, Len(s) - 1)) ELSE s

\* str.strip()
Strip(s) == RStrip(LStrip(s))

LowerChar(c) ==
  CASE c = "A" -> "a"
    [] c = "B" -> "b"
    [] c = "C" -> "c"
    [] c = "F" -> "f"
    [] c = "J" -> "j"
    [] c = "S" -> "s"
    [] c = "X" -> "x"
    [] OTHER -> c

\* str.lower()
Lower(s) == [i \in 1..Len(s) |-> LowerChar(s[i])]

DigitVal(c) ==
  CASE c = "0" -> 0 [] c = "1" -> 1 [] c = "2" -> 2 [] c = "3" -> 3
    [] c = "4" -> 4 [] c = "5" -> 5 [] c = "6" -> 6 [] c = "7" -> 7
    [] c = "8" -> 8 [] c = "9" -> 9

RECURSIVE ParseInt(_)
\* int(str) of a decimal numeral
ParseInt(s) ==
  IF s = <<>> THEN 0
  ELSE 10 * ParseInt(SubSeq(s, 1, Len(s) - 1)) + DigitVal(s[Len(s)])

\* os.getenv(name, default): the variable's value, or the default when unset.
\* An unset variable is the empty tuple, a set one is <<value>>.
GetEnv(var, default) == IF var = <<>> THEN default ELSE var[1]

\* ------------------------------------------------------------------- inputs
\* places.csv rows: city, county, country as pandas hands them to the loader.
PlaceRows ==
  { [city |-> <<"A">>,      county |-> <<"X">>,      country |-> <<"F">>],
    [city |-> <<" ", "A">>, county |-> <<"X", " ">>, country |-> <<"F", " ">>],
    [city |-> <<"a">>,      county |-> NaN,          country |-> <<"S">>] }

\* people.csv rows.  date_ok says whether the store accepts date_of_birth as a
\* DATE: the loader passes the cell through untouched, the INSERT decides.
PeopleRows ==
  { [given_name |-> <<"J", " ">>, family_name |-> <<"D">>, date_ok |-> TRUE,
     place_of_birth |-> <<" ", "A">>],
    [given_name |-> <<"J">>,      family_name |-> <<"D">>, date_ok |-> TRUE,
     place_of_birth |-> <<"C">>],
    [given_name |-> NaN,          family_name |-> <<"D">>, date_ok |-> TRUE,
     place_of_birth |-> <<"A">>],
    [given_name |-> <<"J">>,      family_name |-> <<"D">>, date_ok |-> FALSE,
     place_of_birth |-> <<"a">>] }

SeqsUpTo(S, n) == UNION { [1..k -> S] : k \in 0..n }

\* A source file is missing, present but not parseable by pd.read_csv, or a
\* table of rows.
Files(Rows, n) ==
  { [state |-> "missing", rows |-> <<>>], [state |-> "unreadable", rows |-> <<>>] }
  \cup { [state |-> "ok", rows |-> r] : r \in SeqsUpTo(Rows, n) }

\* MAX_DB_RETRIES in the environment: unset, or a decimal numeral.
EnvValues == { <<>>, << <<"5">> >>, << <<"3", "0">> >>, << <<"4", "2">> >> }

\* What the store holds before the first run: nothing, or rows of an earlier
\* load (every person references a stored place).
InitialStores ==
  { [places |-> {}, people |-> {}, nextPlaceId |-> 1, nextPersonId |-> 1],
    [places |-> { [id |-> 1, city |-> <<"B">>, county |-> NULL, country |-> <<"S">>],
                  [id |-> 2, city |-> <<"C">>, county |-> NULL, country |-> <<"S">>],
                  [id |-> 3, city |-> <<"A">>, county |-> NULL, country |-> <<"F">>] },
     people |-> { [id |-> 1, first_name |-> <<"J">>, place_of_birth_id |-> 2],
                  [id |-> 2, first_name |-> <<"K">>, place_of_birth_id |-> 2],
                  [id |-> 3, first_name |-> <<"L">>, place_of_birth_id |-> 3],
                  [id |-> 4, first_name |-> <<"M">>, place_of_birth_id |-> 1] },
     nextPlaceId |-> 4, nextPersonId |-> 5] }

\* -------------------------------------------------------------------- state
VARIABLES
  env_MAX_DB_RETRIES, \* the environment variable MAX_DB_RETRIES
  placesFile,         \* data/places.csv
  peopleFile,         \* data/people.csv
  proc,               \* the script running: "ingest", "output", or "caller"
  run,                \* number of the ingest run (1, 2, ...)
  pc,                 \* position in the running script
  config,             \* get_config()'s result (its max_retries entry)
  max_retries,        \* wait_for_database: the parameter
  attempt,            \* wait_for_database: the loop variable
  probes,             \* wait_for_database: connect calls made by this call
  conn,               \* main: local conn ("unbound", "open", "closed")
  cursor,             \* main: local cursor ("unbound", "c1", "c2")
  cursors,            \* each cursor object: "none", "open", "closed" (its
                      \* close() was called) or "released" (never closed, its
                      \* connection was)
  exc,                \* the exception in flight ("none" when there is none)
  exitCode,           \* the process's exit status once pc = "exited"
  fk,                 \* session variable FOREIGN_KEY_CHECKS
  places,             \* table places as the open session sees it
  people,             \* table people as the open session sees it
  cplaces,            \* table places, committed
  cpeople,            \* table people, committed
  nextPlaceId,        \* AUTO_INCREMENT of places
  nextPersonId,       \* AUTO_INCREMENT of people
  city_to_id_mapping, \* load_places_data's dict, then main's place_id_mapping
  row,                \* index of the next row of the running loader's loop
  successful_inserts, \* load_people_data
  failed_inserts,     \* load_people_data
  people_ret,         \* what load_people_data returned to main
  place_count,        \* main: SELECT COUNT(*) FROM places
  people_count,       \* main: SELECT COUNT(*) FROM people
  last,               \* what the ingest run before this process reported
  oplog,              \* statements the running ingest run has issued, in order
  summary_data,       \* generate_summary_output's dict
  output_file         \* summary_output.json

inputVars == <<env_MAX_DB_RETRIES, placesFile, peopleFile>>
waitVars == <<max_retries, attempt, probes>>
sessVars == <<conn, cursor, cursors>>
storeVars == <<fk, places, people, cplaces, cpeople, nextPlaceId, nextPersonId>>
loadVars == <<city_to_id_mapping, row, successful_inserts, failed_inserts, people_ret>>
countVars == <<place_count, people_count, last>>
outVars == <<summary_data, output_file>>

vars == <<inputVars, proc, run, pc, config, waitVars, sessVars, exc, exitCode,
          storeVars, loadVars, countVars, oplog, outVars>>

\* No ingest run has ended yet, or the one that did failed.
NoRun == [set |-> FALSE, places |-> 0, people |-> 0, inserted |-> 0]

\* The locals of a script that has just started.
FreshProcess ==
  /\ config = [max_retries |-> 0]
  /\ conn = "unbound" /\ cursor = "unbound"
  /\ cursors = [c \in {"c1", "c2"} |-> "none"]
  /\ exc = "none" /\ exitCode = 0
  /\ city_to_id_mapping = <<>>
  /\ row = 1 /\ successful_inserts = 0 /\ failed_inserts = 0
  /\ people_ret = [kind |-> "not called", success |-> 0, failure |-> 0]
  /\ place_count = 0 /\ people_count = 0
  /\ oplog = <<>>
  /\ summary_data = <<>>

\* Two ingest runs and an output run on the same files.  MAX_DB_RETRIES is
\* left unset here and varied in InitWait: main reads config['max_retries']
\* nowhere, so nothing after get_config depends on it.
Init ==
  /\ env_MAX_DB_RETRIES = <<>>
  /\ placesFile \in Files(PlaceRows, MaxPlaces)
  /\ peopleFile \in Files(PeopleRows, MaxPeople)
  /\ proc = "ingest" /\ run = 1 /\ pc = "get_config"
  /\ FreshProcess
  /\ max_retries = 0 /\ attempt = 0 /\ probes = 0
  /\ \E s \in InitialStores :
       /\ places = s.places /\ cplaces = s.places
       /\ people = s.people /\ cpeople = s.people
       /\ nextPlaceId = s.nextPlaceId /\ nextPersonId = s.nextPersonId
  /\ fk = 1
  /\ last = NoRun
  /\ output_file = [written |-> FALSE, content |-> <<>>]

\* --------------------------------------------------------------- get_config
\* get_config(): 'max_retries': int(os.getenv('MAX_DB_RETRIES', '30'))
get_config == [max_retries |-> ParseInt(GetEnv(env_MAX_DB_RETRIES, <<"3", "0">>))]

\* main: config = get_config(); db_config = {...}.  output.py's get_config
\* has no 'max_retries' entry: there the entry stays as it is.
MainGetConfig ==
  /\ pc = "get_config"
  /\ config' = IF proc = "ingest" THEN get_config ELSE config
  /\ pc' = "call_wait"
  /\ UNCHANGED <<inputVars, proc, run, waitVars, sessVars, exc, exitCode,
                 storeVars, loadVars, countVars, oplog, outVars>>

\* ------------------------------------------------------- wait_for_database
\* Where an exception goes: a direct call of a function has no handler, main
\* has "except Exception".
RaisePc == IF proc = "caller" THEN "raised" ELSE "except"

\* An exception leaves the code that raised it.
Raise(kind) == exc' = kind /\ pc' = RaisePc

\* Where wait_for_database returns to: main goes on to connect.
WaitReturnPc == IF proc = "caller" THEN "returned" ELSE "connect"

\* A variant of WaitLoopContinues: range(max_retries + 1).
WaitLoopOneMore == attempt <= max_retries

\* Whether "for attempt in range(max_retries)" runs its body once more.
WaitLoopContinues == attempt < max_retries

\* One pass of the loop body: conn = connect(**config); conn.close(); return,
\* or mysql.connector.Error: print, sleep(2), next attempt.  The probe's
\* connection is closed in the same step that opened it.
WaitProbe ==
  /\ pc = "wait"
  /\ WaitLoopContinues
  /\ probes' = probes + 1
  /\ \E ok \in BOOLEAN :
       IF ok
       THEN pc' = WaitReturnPc /\ UNCHANGED attempt
       ELSE pc' = "wait" /\ attempt' = attempt + 1
  /\ UNCHANGED <<inputVars, proc, run, config, max_retries, sessVars, exc,
                 exitCode, storeVars, loadVars, countVars, oplog, outVars>>

\* The loop is exhausted: raise Exception("Database not available ...").
WaitRaise ==
  /\ pc = "wait"
  /\ ~WaitLoopContinues
  /\ Raise("Unavailable")
  /\ UNCHANGED <<inputVars, proc, run, config, waitVars, sessVars, exitCode,
                 storeVars, loadVars, countVars, oplog, outVars>>

\* A whole call of wait_for_database with max_retries = m, as its caller sees
\* it: it returns after k probes (the first k - 1 failed, the k-th succeeded,
\* 1 <= k <= m), or raises after m failed probes.
WaitOutcomes(m) ==
  { [result |-> "return", probes |-> k] : k \in 1..m }
  \cup { [result |-> "raise", probes |-> m] }

\* The argument main passes for max_retries: wait_for_database(db_config)
\* passes none, so the parameter takes its default.
MainWaitArg == DefaultMaxRetries

\* main: wait_for_database(db_config), the call; the loop then runs pass by
\* pass (WaitProbe, WaitRaise).
MainCallWait ==
  /\ pc = "call_wait"
  /\ max_retries' = MainWaitArg
  /\ attempt' = 0 /\ probes' = 0
  /\ pc' = "wait"
  /\ UNCHANGED <<inputVars, proc, run, config, sessVars, exc, exitCode,
                 storeVars, loadVars, countVars, oplog, outVars>>

\* main: wait_for_database(db_config), call and loop as one step.  probes
\* keeps the number of probes of a call that raised.
MainWait ==
  /\ pc = "call_wait"
  /\ \E o \in WaitOutcomes(MainWaitArg) :
       IF o.result = "return"
       THEN pc' = "connect" /\ probes' = 0 /\ UNCHANGED exc
       ELSE Raise("Unavailable") /\ probes' = o.probes
  /\ UNCHANGED <<inputVars, proc, run, config, max_retries, attempt, sessVars,
                 exitCode, storeVars, loadVars, countVars, oplog, outVars>>

\* ------------------------------------------------------------------ store
\* The uniqueness constraint of table places: its natural key.
SamePlace(p, city, county, country) ==
  p.city = city /\ p.county = county /\ p.country = country

\* INSERT INTO places (city, county, country) VALUES (%s, %s, %s)
\* ON DUPLICATE KEY UPDATE id=LAST_INSERT_ID(id): the table afterwards.
UpsertPlace(tbl, next, city, county, country) ==
  IF \E p \in tbl : SamePlace(p, city, county, country)
  THEN tbl
  ELSE tbl \cup { [id |-> next, city |-> city, county |-> county, country |-> country] }

\* A variant of LastRowId: the statement without id=LAST_INSERT_ID(id), for
\* which a duplicate leaves lastrowid at 0.
LastRowIdPlainUpdate(tbl, next, city, county, country) ==
  IF \E p \in tbl : SamePlace(p, city, county, country) THEN 0 ELSE next

\* cursor.lastrowid after that statement: the new row's id, or, through
\* LAST_INSERT_ID(id), the id of the row that was already there.
LastRowId(tbl, next, city, county, country) ==
  IF \E p \in tbl : SamePlace(p, city, county, country)
  THEN (CHOOSE p \in tbl : SamePlace(p, city, county, country)).id
  ELSE next

\* AUTO_INCREMENT of places after that statement.
NextIdAfterUpsert(tbl, next, city, county, country) ==
  IF \E p \in tbl : SamePlace(p, city, county, country) THEN next ELSE next + 1

\* --------------------------------------------------- main: session, clearing
\* conn = mysql.connector.connect(**db_config): a new session sees what is
\* committed, with FOREIGN_KEY_CHECKS at its default.
MainConnect ==
  /\ pc = "connect"
  /\ \E ok \in BOOLEAN :
       IF ok
       THEN /\ conn' = "open"
            /\ places' = cplaces /\ people' = cpeople /\ fk' = 1
            /\ pc' = "cursor"
            /\ UNCHANGED exc
       ELSE /\ Raise("StoreError")
            /\ UNCHANGED <<conn, places, people, fk>>
  /\ UNCHANGED <<inputVars, proc, run, config, waitVars, cursor, cursors,
                 exitCode, cplaces, cpeople, nextPlaceId, nextPersonId,
                 loadVars, countVars, oplog, outVars>>

\* cursor = conn.cursor()
MainCursor ==
  /\ pc = "cursor"
  /\ \E ok \in BOOLEAN :
       IF ok
       THEN /\ cursor' = "c1"
            /\ cursors' = [cursors EXCEPT !["c1"] = "open"]
            /\ pc' = IF proc = "ingest" THEN "fk_off" ELSE "gen_summary"
            /\ UNCHANGED exc
       ELSE /\ Raise("StoreError")
            /\ UNCHANGED <<cursor, cursors>>
  /\ UNCHANGED <<inputVars, proc, run, config, waitVars, conn, exitCode,
                 storeVars, loadVars, countVars, oplog, outVars>>

\* cursor.execute("SET FOREIGN_KEY_CHECKS = 0")
ClearFkOff ==
  /\ pc = "fk_off"
  /\ oplog' = Append(oplog, "fk_off")
  /\ \E ok \in BOOLEAN :
       IF ok
       THEN fk' = 0 /\ pc' = "trunc_people" /\ UNCHANGED exc
       ELSE Raise("StoreError") /\ UNCHANGED fk
  /\ UNCHANGED <<inputVars, proc, run, config, waitVars, sessVars, exitCode,
                 places, people, cplaces, cpeople, nextPlaceId, nextPersonId,
                 loadVars, countVars, outVars>>

\* A variant of TruncateTable: the statement leaves the table as it is.
TableLeftAsItIs(tbl, next) == [rows |-> tbl, next |-> next]

\* TRUNCATE TABLE t: the table is emptied and its AUTO_INCREMENT starts
\* again at 1.
TruncateTable(tbl, next) == [rows |-> {}, next |-> 1]

\* cursor.execute("TRUNCATE TABLE people"): TRUNCATE empties the table, resets
\* its AUTO_INCREMENT and commits implicitly.
ClearTruncPeople ==
  /\ pc = "trunc_people"
  /\ oplog' = Append(oplog, "truncate_people")
  /\ \E ok \in BOOLEAN :
       IF ok
       THEN /\ people' = TruncateTable(people, nextPersonId).rows
            /\ cpeople' = TruncateTable(people, nextPersonId).rows
            /\ nextPersonId' = TruncateTable(people, nextPersonId).next
            /\ cplaces' = places
            /\ pc' = "trunc_places"
            /\ UNCHANGED exc
       ELSE /\ Raise("StoreError")
            /\ UNCHANGED <<people, cpeople, cplaces, nextPersonId>>
  /\ UNCHANGED <<inputVars, proc, run, config, waitVars, sessVars, exitCode,
                 fk, places, nextPlaceId, loadVars, countVars, outVars>>

\* cursor.execute("TRUNCATE TABLE places"): the store refuses to truncate a
\* table a foreign key references while FOREIGN_KEY_CHECKS is 1.
ClearTruncPlaces ==
  /\ pc = "trunc_places"
  /\ oplog' = Append(oplog, "truncate_places")
  /\ \E ok \in BOOLEAN :
       IF ok /\ fk = 0
       THEN /\ places' = TruncateTable(places, nextPlaceId).rows
            /\ cplaces' = TruncateTable(places, nextPlaceId).rows
            /\ nextPlaceId' = TruncateTable(places, nextPlaceId).next
            /\ cpeople' = people
            /\ pc' = "fk_on"
            /\ UNCHANGED exc
       ELSE /\ Raise("StoreError")
            /\ UNCHANGED <<places, cplaces, cpeople, nextPlaceId>>
  /\ UNCHANGED <<inputVars, proc, run, config, waitVars, sessVars, exitCode,
                 fk, people, nextPersonId, loadVars, countVars, outVars>>

\* cursor.execute("SET FOREIGN_KEY_CHECKS = 1")
ClearFkOn ==
  /\ pc = "fk_on"
  /\ oplog' = Append(oplog, "fk_on")
  /\ \E ok \in BOOLEAN :
       IF ok
       THEN fk' = 1 /\ pc' = "commit_clear" /\ UNCHANGED exc
       ELSE Raise("StoreError") /\ UNCHANGED fk
  /\ UNCHANGED <<inputVars, proc, run, config, waitVars, sessVars, exitCode,
                 places, people, cplaces, cpeople, nextPlaceId, nextPersonId,
                 loadVars, countVars, outVars>>

\* Where main goes after each of its three conn.commit() calls.
AfterCommit ==
  CASE pc = "commit_clear" -> "cursor2"
    [] pc = "commit_places" -> "load_people"
    [] pc = "commit_people" -> "count_places"

\* conn.commit(), after the clear, after load_places_data, after
\* load_people_data.
MainCommit ==
  /\ pc \in {"commit_clear", "commit_places", "commit_people"}
  /\ oplog' = Append(oplog, "commit")
  /\ \E ok \in BOOLEAN :
       IF ok
       THEN /\ cplaces' = places /\ cpeople' = people
            /\ pc' = AfterCommit
            /\ UNCHANGED exc
       ELSE /\ Raise("StoreError")
            /\ UNCHANGED <<cplaces, cpeople>>
  /\ UNCHANGED <<inputVars, proc, run, config, waitVars, sessVars, exitCode,
                 fk, places, people, nextPlaceId, nextPersonId,
                 loadVars, countVars, outVars>>

\* cursor = conn.cursor() after the clear: the name is bound to a second
\* cursor; nothing closes the first one here.
MainCursorAgain ==
  /\ pc = "cursor2"
  /\ \E ok \in BOOLEAN :
       IF ok
       THEN /\ cursor' = "c2"
            /\ cursors' = [cursors EXCEPT !["c2"] = "open"]
            /\ pc' = "load_places"
            /\ UNCHANGED exc
       ELSE /\ Raise("StoreError")
            /\ UNCHANGED <<cursor, cursors>>
  /\ UNCHANGED <<inputVars, proc, run, config, waitVars, conn, exitCode,
                 storeVars, loadVars, countVars, oplog, outVars>>

\* --------------------------------------------------------- load_places_data
\* if not os.path.exists(places_file): raise FileNotFoundError;
\* places_df = pd.read_csv(...); city_to_id_mapping = {}
LoadPlacesOpen ==
  /\ pc = "load_places"
  /\ IF placesFile.state = "missing"
     THEN Raise("FileNotFoundError") /\ UNCHANGED <<city_to_id_mapping, row>>
     ELSE IF placesFile.state = "unreadable"
          THEN Raise("ParserError") /\ UNCHANGED <<city_to_id_mapping, row>>
          ELSE /\ city_to_id_mapping' = <<>>
               /\ row' = 1
               /\ pc' = "places_loop"
               /\ UNCHANGED exc
  /\ UNCHANGED <<inputVars, proc, run, config, waitVars, sessVars, exitCode,
                 storeVars, successful_inserts, failed_inserts, people_ret,
                 countVars, oplog, outVars>>

\* county = row['county'].strip() if pd.notna(row['county']) else None
CountyOf(r) == IF IsStr(r.county) THEN Strip(r.county) ELSE NULL

\* city_to_id_mapping[key] = place_id
DictSet(d, key, value) == (key :> value) @@ d

\* One row of "for _, row in places_df.iterrows()": strip the fields, execute
\* the INSERT ... ON DUPLICATE KEY UPDATE, record cursor.lastrowid under the
\* lower-cased city.  A missing city or country has no .strip(); that and a
\* store error leave the function as an exception.
LoadPlacesRow ==
  /\ pc = "places_loop"
  /\ row <= Len(placesFile.rows)
  /\ LET r == placesFile.rows[row] IN
       IF ~IsStr(r.city) \/ ~IsStr(r.country)
       THEN /\ Raise("AttributeError")
            /\ UNCHANGED <<places, nextPlaceId, city_to_id_mapping, row, oplog>>
       ELSE LET city == Strip(r.city)
                county == CountyOf(r)
                country == Strip(r.country)
            IN /\ oplog' = Append(oplog, "upsert_place")
               /\ \E ok \in BOOLEAN :
                    IF ok
                    THEN /\ places' = UpsertPlace(places, nextPlaceId, city, county, country)
                         /\ nextPlaceId' =
                              NextIdAfterUpsert(places, nextPlaceId, city, county, country)
                         /\ city_to_id_mapping' =
                              DictSet(city_to_id_mapping, Lower(city),
                                      LastRowId(places, nextPlaceId, city, county, country))
                         /\ row' = row + 1
                         /\ UNCHANGED <<pc, exc>>
                    ELSE /\ Raise("StoreError")
                         /\ UNCHANGED <<places, nextPlaceId, city_to_id_mapping, row>>
  /\ UNCHANGED <<inputVars, proc, run, config, waitVars, sessVars, exitCode,
                 fk, people, cplaces, cpeople, nextPersonId,
                 successful_inserts, failed_inserts, people_ret,
                 countVars, outVars>>

\* A variant of AfterLoadPlaces: main goes on to load_people_data without
\* conn.commit().
AfterLoadPlacesNoCommit == "load_people"

\* main after place_id_mapping = load_places_data(cursor, data_path):
\* conn.commit()
AfterLoadPlaces == "commit_places"

\* return city_to_id_mapping; main: place_id_mapping = load_places_data(...)
LoadPlacesReturn ==
  /\ pc = "places_loop"
  /\ row > Len(placesFile.rows)
  /\ pc' = AfterLoadPlaces
  /\ UNCHANGED <<inputVars, proc, run, config, waitVars, sessVars, exc, exitCode,
                 storeVars, loadVars, countVars, oplog, outVars>>

\* --------------------------------------------------------- load_people_data
\* if not os.path.exists(people_file): raise FileNotFoundError;
\* people_df = pd.read_csv(...); successful_inserts = 0; failed_inserts = 0
LoadPeopleOpen ==
  /\ pc = "load_people"
  /\ IF peopleFile.state = "missing"
     THEN /\ Raise("FileNotFoundError")
          /\ UNCHANGED <<row, successful_inserts, failed_inserts>>
     ELSE IF peopleFile.state = "unreadable"
          THEN /\ Raise("ParserError")
               /\ UNCHANGED <<row, successful_inserts, failed_inserts>>
          ELSE /\ row' = 1
               /\ successful_inserts' = 0
               /\ failed_inserts' = 0
               /\ pc' = "people_loop"
               /\ UNCHANGED exc
  /\ UNCHANGED <<inputVars, proc, run, config, waitVars, sessVars, exitCode,
                 storeVars, city_to_id_mapping, people_ret,
                 countVars, oplog, outVars>>

\* Python's None, as the value a dict's get() gives for an absent key (the
\* ids the store assigns are positive).
None == -1

\* dict.get(key)
DictGet(d, key) == IF key \in DOMAIN d THEN d[key] ELSE None

\* The first four statements of the try block: .strip() on given_name,
\* family_name and place_of_birth raises when the cell is missing.
RowHasStrings(r) ==
  IsStr(r.given_name) /\ IsStr(r.family_name) /\ IsStr(r.place_of_birth)

\* A variant of CityKeyOfBirth that leaves out .lower().
CityKeyOfBirthAsWritten(r) == Strip(r.place_of_birth)

\* city_of_birth = row['place_of_birth'].strip(); city_of_birth.lower()
CityKeyOfBirth(r) == Lower(Strip(r.place_of_birth))

\* place_id = city_to_id_mapping.get(city_of_birth.lower())
PlaceIdOf(mapping, r) == DictGet(mapping, CityKeyOfBirth(r))

\* A foreign key of table people references places(id): with
\* FOREIGN_KEY_CHECKS on, place_of_birth_id must be NULL or a place's id.
ForeignKeyHolds(place_id) ==
  fk = 0 \/ place_id = None \/ \E p \in places : p.id = place_id

\* Whether the store accepts the INSERT INTO people of the row.
InsertAccepted(r, place_id) == r.date_ok /\ ForeignKeyHolds(place_id)

\* A variant of RowOutcome in which a row without a place is not skipped (no
\* "continue"): it goes on to the INSERT with place_id None.
RowOutcomeNoContinue(r, mapping) ==
  IF ~RowHasStrings(r) THEN "exception"
  ELSE IF InsertAccepted(r, PlaceIdOf(mapping, r)) THEN "inserted"
       ELSE "insert_error"

\* What one pass of the loop body does with a row:
\*   "exception"    .strip() raised, caught by "except Exception"
\*   "skipped"      place_id is None: warning, failed_inserts += 1, continue
\*   "inserted"     cursor.execute(INSERT) succeeded, successful_inserts += 1
\*   "insert_error" cursor.execute(INSERT) raised, caught by "except Exception"
RowOutcome(r, mapping) ==
  IF ~RowHasStrings(r) THEN "exception"
  ELSE IF PlaceIdOf(mapping, r) = None THEN "skipped"
       ELSE IF InsertAccepted(r, PlaceIdOf(mapping, r)) THEN "inserted"
            ELSE "insert_error"

\* One row of "for _, row in people_df.iterrows()", with its try/except.
LoadPeopleRow ==
  /\ pc = "people_loop"
  /\ row <= Len(peopleFile.rows)
  /\ row' = row + 1
  /\ LET r == peopleFile.rows[row]
         outcome == RowOutcome(r, city_to_id_mapping)
     IN /\ oplog' = IF outcome \in {"inserted", "insert_error"}
                    THEN Append(oplog, "insert_person")
                    ELSE oplog
        /\ IF outcome = "inserted"
           THEN /\ people' = people \cup
                     { [id |-> nextPersonId,
                        first_name |-> Strip(r.given_name),
                        place_of_birth_id |-> PlaceIdOf(city_to_id_mapping, r)] }
                /\ nextPersonId' = nextPersonId + 1
                /\ successful_inserts' = successful_inserts + 1
                /\ UNCHANGED failed_inserts
           ELSE /\ failed_inserts' = failed_inserts + 1
                /\ UNCHANGED <<successful_inserts, people, nextPersonId>>
  /\ UNCHANGED <<inputVars, proc, run, pc, config, waitVars, sessVars, exc,
                 exitCode, fk, places, cplaces, cpeople, nextPlaceId,
                 city_to_id_mapping, people_ret, countVars, outVars>>

\* A variant of LoadPeopleResult: return successful_inserts, failed_inserts.
LoadPeopleResultTallies(succ, fail) ==
  [kind |-> "tuple", success |-> succ, failure |-> fail]

\* What load_people_data hands back: it prints the tallies and falls off its
\* end, so the caller receives None.
LoadPeopleResult(succ, fail) == [kind |-> "None", success |-> 0, failure |-> 0]

\* print(f"Successfully inserted ..."); the function ends.
LoadPeopleReturn ==
  /\ pc = "people_loop"
  /\ row > Len(peopleFile.rows)
  /\ people_ret' = LoadPeopleResult(successful_inserts, failed_inserts)
  /\ pc' = "commit_people"
  /\ UNCHANGED <<inputVars, proc, run, config, waitVars, sessVars, exc, exitCode,
                 storeVars, city_to_id_mapping, row, successful_inserts,
                 failed_inserts, countVars, oplog, outVars>>

\* ------------------------------------------------------ main: final counts
\* cursor.execute("SELECT COUNT(*) FROM places"); place_count = fetchone()[0]
MainCountPlaces ==
  /\ pc = "count_places"
  /\ oplog' = Append(oplog, "count_places")
  /\ \E ok \in BOOLEAN :
       IF ok
       THEN place_count' = Cardinality(places) /\ pc' = "count_people" /\ UNCHANGED exc
       ELSE Raise("StoreError") /\ UNCHANGED place_count
  /\ UNCHANGED <<inputVars, proc, run, config, waitVars, sessVars, exitCode,
                 storeVars, loadVars, people_count, last, outVars>>

\* cursor.execute("SELECT COUNT(*) FROM people"); people_count = fetchone()[0];
\* the try block ends.
MainCountPeople ==
  /\ pc = "count_people"
  /\ oplog' = Append(oplog, "count_people")
  /\ \E ok \in BOOLEAN :
       IF ok
       THEN people_count' = Cardinality(people) /\ pc' = "finally" /\ UNCHANGED exc
       ELSE Raise("StoreError") /\ UNCHANGED people_count
  /\ UNCHANGED <<inputVars, proc, run, config, waitVars, sessVars, exitCode,
                 storeVars, loadVars, place_count, last, outVars>>

\* ------------------------------------------------- main: except and finally
\* if 'cursor' in locals(): cursor.close()
CursorsAfterCursorClose ==
  IF cursor = "unbound" THEN cursors ELSE [cursors EXCEPT ![cursor] = "closed"]

\* A variant of ConnAfterFinally: a finally block without conn.close().
ConnLeftAsItIs == conn

\* if 'conn' in locals(): conn.close().  Closing ends the session: what it
\* had not committed is rolled back, its session variables are gone, and a
\* cursor created on it and still open is left without a session.
ConnAfterFinally ==
  IF conn = "unbound" THEN "unbound" ELSE "closed"

CursorsAfterConnClose(cs) ==
  IF conn = "unbound"
  THEN cs
  ELSE [c \in DOMAIN cs |-> IF cs[c] = "open" THEN "released" ELSE cs[c]]

\* The finally block, and the end of the process with the given status.
Finally(status) ==
  /\ cursors' = CursorsAfterConnClose(CursorsAfterCursorClose)
  /\ conn' = ConnAfterFinally
  /\ IF ConnAfterFinally = "closed"
     THEN places' = cplaces /\ people' = cpeople /\ fk' = 1
     ELSE UNCHANGED <<places, people, fk>>
  /\ exitCode' = status
  /\ pc' = "exited"

\* The status sys.exit is called with in the except block.
ExceptExitStatus == 1

\* except Exception as e: print(...); sys.exit(1); the finally block runs as
\* SystemExit leaves main.  exc keeps the exception that was handled.
MainExcept ==
  /\ pc = "except"
  /\ Finally(ExceptExitStatus)
  /\ UNCHANGED <<inputVars, proc, run, config, waitVars, cursor, exc,
                 cplaces, cpeople, nextPlaceId, nextPersonId,
                 loadVars, countVars, oplog, outVars>>

\* The try block ended without an exception: the finally block runs, main
\* returns and the process ends with status 0.
MainFinally ==
  /\ pc = "finally"
  /\ Finally(0)
  /\ UNCHANGED <<inputVars, proc, run, config, waitVars, cursor, exc,
                 cplaces, cpeople, nextPlaceId, nextPersonId,
                 loadVars, countVars, oplog, outVars>>

\* ------------------------------------------------------------ next process
\* The locals of the script started next.
StartProcess ==
  /\ config' = [max_retries |-> 0]
  /\ max_retries' = 0 /\ attempt' = 0 /\ probes' = 0
  /\ conn' = "unbound" /\ cursor' = "unbound"
  /\ cursors' = [c \in {"c1", "c2"} |-> "none"]
  /\ exc' = "none" /\ exitCode' = 0
  /\ city_to_id_mapping' = <<>>
  /\ row' = 1 /\ successful_inserts' = 0 /\ failed_inserts' = 0
  /\ people_ret' = [kind |-> "not called", success |-> 0, failure |-> 0]
  /\ place_count' = 0 /\ people_count' = 0
  /\ oplog' = <<>>
  /\ summary_data' = <<>>
  /\ pc' = "get_config"

\* What the ingest run that just ended printed, when it ended with status 0:
\* "Places table: N total records", "People table: N total records" and
\* "Successfully inserted N people".
Reported ==
  IF exitCode = 0
  THEN [set |-> TRUE, places |-> place_count, people |-> people_count,
        inserted |-> successful_inserts]
  ELSE NoRun

\* ingest.py is run again on the same files.
RunIngestAgain ==
  /\ pc = "exited" /\ proc = "ingest"
  /\ run < MaxRuns
  /\ run' = run + 1
  /\ last' = Reported
  /\ StartProcess
  /\ UNCHANGED <<inputVars, proc, storeVars, output_file>>

\* output.py is run after an ingest run.
RunOutput ==
  /\ pc = "exited" /\ proc = "ingest"
  /\ proc' = "output"
  /\ StartProcess
  /\ last' = Reported
  /\ UNCHANGED <<inputVars, run, storeVars, output_file>>

\* --------------------------------------------------- generate_summary_output
\* A variant of CountryCounts: the query with JOIN in place of LEFT JOIN,
\* which has no row for a country without people.
CountryCountsInnerJoin(pl, pe) ==
  [c \in { x.country : x \in { y \in pl : \E q \in pe : q.place_of_birth_id = y.id } } |->
     Cardinality({ q \in pe : \E x \in pl : x.country = c /\ x.id = q.place_of_birth_id })]

\* SELECT pl.country, COUNT(p.id) FROM places pl LEFT JOIN people p
\* ON pl.id = p.place_of_birth_id GROUP BY pl.country: one row per country of
\* table places, counting the people rows joined to a place of that country.
CountryCounts(pl, pe) ==
  [c \in { x.country : x \in pl } |->
     Cardinality({ <<x.id, q.id>> : <<x, q>> \in
       { y \in pl \X pe : y[1].country = c /\ y[1].id = y[2].place_of_birth_id } })]

\* summary_data = {}; for country, count in results: summary_data[country] = count
generate_summary_output(pl, pe) == CountryCounts(pl, pe)

\* output.py main: summary_data = generate_summary_output(cursor)
OutputGenerate ==
  /\ pc = "gen_summary"
  /\ \E ok \in BOOLEAN :
       IF ok
       THEN /\ summary_data' = generate_summary_output(places, people)
            /\ pc' = "write_json"
            /\ UNCHANGED exc
       ELSE /\ Raise("StoreError")
            /\ UNCHANGED summary_data
  /\ UNCHANGED <<inputVars, proc, run, config, waitVars, sessVars, exitCode,
                 storeVars, loadVars, countVars, oplog, output_file>>

\* with open(output_path, 'w', ...) as f: json.dump(summary_data, f, ...);
\* the try block ends.
OutputWrite ==
  /\ pc = "write_json"
  /\ \E ok \in BOOLEAN :
       IF ok
       THEN /\ output_file' = [written |-> TRUE, content |-> summary_data]
            /\ pc' = "finally"
            /\ UNCHANGED exc
       ELSE /\ Raise("OSError")
            /\ UNCHANGED output_file
  /\ UNCHANGED <<inputVars, proc, run, config, waitVars, sessVars, exitCode,
                 storeVars, loadVars, countVars, oplog, summary_data>>

\* -------------------------------------------------------------------- Next
Next ==
  \/ MainGetConfig
  \/ MainWait
  \/ MainConnect
  \/ MainCursor
  \/ ClearFkOff
  \/ ClearTruncPeople
  \/ ClearTruncPlaces
  \/ ClearFkOn
  \/ MainCommit
  \/ MainCursorAgain
  \/ LoadPlacesOpen
  \/ LoadPlacesRow
  \/ LoadPlacesReturn
  \/ LoadPeopleOpen
  \/ LoadPeopleRow
  \/ LoadPeopleReturn
  \/ MainCountPlaces
  \/ MainCountPeople
  \/ MainExcept
  \/ MainFinally
  \/ RunIngestAgain
  \/ RunOutput
  \/ OutputGenerate
  \/ OutputWrite

Spec == Init /\ [][Next]_vars

\* ----------------------------------------------- the readiness wait, stepwise
\* The wait loop pass by pass: wait_for_database called on its own with
\* max_retries = m, and each script from its start to the end of its wait.
InitWait ==
  /\ placesFile = [state |-> "missing", rows |-> <<>>]
  /\ peopleFile = [state |-> "missing", rows |-> <<>>]
  /\ run = 1
  /\ FreshProcess
  /\ attempt = 0 /\ probes = 0
  /\ \/ /\ proc = "caller" /\ pc = "wait"
        /\ env_MAX_DB_RETRIES = <<>>
        /\ max_retries \in 0..MaxAttempts
     \/ /\ proc \in {"ingest", "output"} /\ pc = "get_config"
        /\ env_MAX_DB_RETRIES \in EnvValues
        /\ max_retries = 0
  /\ places = {} /\ cplaces = {} /\ people = {} /\ cpeople = {}
  /\ nextPlaceId = 1 /\ nextPersonId = 1
  /\ fk = 1
  /\ last = NoRun
  /\ output_file = [written |-> FALSE, content |-> <<>>]

NextWait ==
  \/ MainGetConfig
  \/ MainCallWait
  \/ WaitProbe
  \/ WaitRaise
  \/ MainExcept

SpecWait == InitWait /\ [][NextWait]_vars

\* ================================================================== claims

\* C1: wait_for_database(connection_params, max_attempts) makes at most
\* max_attempts probes; while it is still looping every probe so far has
\* failed, so it returns at the first probe that succeeds and probes no
\* further; when all max_attempts probes have failed it raises the "database
\* not available" error, and a running wait can always take its next step.
C1_WaitIsBounded ==
  /\ probes <= max_retries
  /\ pc = "wait" => probes = attempt /\ ENABLED NextWait
  /\ pc \in {"returned", "connect"} =>
       /\ probes = attempt + 1
       /\ exc = "none"
       /\ [result |-> "return", probes |-> probes] \in WaitOutcomes(max_retries)
  /\ pc \in {"raised", "except", "exited"} =>
       /\ exc = "Unavailable"
       /\ probes = max_retries /\ attempt = max_retries
       /\ [result |-> "raise", probes |-> probes] \in WaitOutcomes(max_retries)

\* C1's case: a direct call with max_retries = 3 has raised after three
\* failed probes.
C1_Exhausted ==
  proc = "caller" /\ pc = "raised" /\ max_retries = 3 /\ probes = 3

\* C2: an ingest run that aborts because the store never became reachable
\* has made exactly as many probes as the configured maximum, the value
\* get_config read from MAX_DB_RETRIES.
C2_ProbesAreTheConfiguredMaximum ==
  (proc = "ingest" /\ exc = "Unavailable") => probes = config.max_retries

\* C3: in load_people_data, a row whose trimmed, lower-cased place_of_birth
\* is not a key of the lookup mapping inserts no person row, raises the
\* failure counter by exactly one, leaves the success counter alone, and the
\* loop goes on to the next row (no exception leaves the function).
C3_UnmatchedRowIsSkipped ==
  [][ ( /\ pc = "people_loop"
        /\ row <= Len(peopleFile.rows)
        /\ IsStr(peopleFile.rows[row].place_of_birth)
        /\ Lower(Strip(peopleFile.rows[row].place_of_birth))
             \notin DOMAIN city_to_id_mapping )
      => ( /\ people' = people /\ cpeople' = cpeople
           /\ failed_inserts' = failed_inserts + 1
           /\ successful_inserts' = successful_inserts
           /\ pc' = "people_loop" /\ row' = row + 1 /\ exc' = "none" ) ]_vars

\* C3's case: the first of two rows names a place that no loaded place
\* matches, although places were loaded; it was counted as a failure, nothing
\* was inserted, and the loop is at the second row.
C3_SkippedOne ==
  /\ pc = "people_loop" /\ row = 2 /\ Len(peopleFile.rows) = 2
  /\ city_to_id_mapping # <<>>
  /\ IsStr(peopleFile.rows[1].place_of_birth)
  /\ Lower(Strip(peopleFile.rows[1].place_of_birth)) \notin DOMAIN city_to_id_mapping
  /\ failed_inserts = 1 /\ successful_inserts = 0 /\ people = {}

\* C4: in load_people_data, a valid row (its names and place are text, its
\* date is one the store accepts) whose trimmed, lower-cased place_of_birth is
\* a key of the lookup mapping adds exactly one person row, which references
\* the mapped place key, and raises the success counter by exactly one; the
\* failure counter is unchanged.
C4_MatchedRowIsInserted ==
  [][ ( /\ pc = "people_loop"
        /\ row <= Len(peopleFile.rows)
        /\ IsStr(peopleFile.rows[row].given_name)
        /\ IsStr(peopleFile.rows[row].family_name)
        /\ IsStr(peopleFile.rows[row].place_of_birth)
        /\ peopleFile.rows[row].date_ok
        /\ Lower(Strip(peopleFile.rows[row].place_of_birth))
             \in DOMAIN city_to_id_mapping )
      => ( /\ \E q \in people' :
                /\ q \notin people
                /\ people' = people \cup {q}
                /\ q.place_of_birth_id =
                     city_to_id_mapping[Lower(Strip(peopleFile.rows[row].place_of_birth))]
                /\ \E pl \in places : pl.id = q.place_of_birth_id
           /\ Cardinality(people') = Cardinality(people) + 1
           /\ successful_inserts' = successful_inserts + 1
           /\ failed_inserts' = failed_inserts
           /\ pc' = "people_loop" /\ row' = row + 1 ) ]_vars

\* C4's case: the second of two rows was valid and matched (its place needed
\* trimming and lower-casing to match) and is now a person row; the first had
\* been inserted before it.
C4_InsertedSecond ==
  /\ pc = "people_loop" /\ row = 3
  /\ peopleFile.rows[2].place_of_birth = <<" ", "A">>
  /\ successful_inserts = 2 /\ failed_inserts = 0
  /\ Cardinality(people) = 2

\* C5 as stated: load_people_data returns the final (success_count,
\* failure_count) to its caller, their sum being the number of rows read, and
\* it raises only when the people source is missing.
C5_ReturnsTallies ==
  /\ pc = "commit_people" =>
       /\ people_ret = [kind |-> "tuple", success |-> successful_inserts,
                        failure |-> failed_inserts]
       /\ successful_inserts + failed_inserts = Len(peopleFile.rows)
  /\ ( /\ pc = "except"
       /\ oplog # <<>> /\ oplog[Len(oplog)] = "commit"
       /\ exc \in {"FileNotFoundError", "ParserError"}
       /\ placesFile.state = "ok" )
     => peopleFile.state = "missing"

\* C5 amended: load_people_data hands None to its caller; the tallies are
\* its locals (printed), and when it ends their sum is the number of rows
\* read.  It raises only before the first row: FileNotFoundError when the
\* source is missing, pd.read_csv's error when the source cannot be read.
\* Once the loop runs no exception leaves it: every row, whatever happens to
\* it, adds one to exactly one of the two counters and the next row follows.
C5_TalliesKeptNotReturned ==
  [][ /\ pc = "people_loop" =>
           /\ pc' \in {"people_loop", "commit_people"}
           /\ exc' = "none"
           /\ row <= Len(peopleFile.rows) =>
                /\ row' = row + 1
                /\ \/ /\ successful_inserts' = successful_inserts + 1
                      /\ failed_inserts' = failed_inserts
                   \/ /\ successful_inserts' = successful_inserts
                      /\ failed_inserts' = failed_inserts + 1
           /\ pc' = "commit_people" =>
                /\ people_ret'.kind = "None"
                /\ successful_inserts + failed_inserts = Len(peopleFile.rows)
                /\ UNCHANGED <<successful_inserts, failed_inserts>>
      /\ pc = "load_people" =>
           /\ peopleFile.state = "missing" =>
                pc' = "except" /\ exc' = "FileNotFoundError"
           /\ peopleFile.state = "unreadable" =>
                pc' = "except" /\ exc' = "ParserError"
           /\ peopleFile.state = "ok" =>
                /\ pc' = "people_loop" /\ exc' = "none"
                /\ successful_inserts' = 0 /\ failed_inserts' = 0 ]_vars

\* C5's case: the store refused the first row's INSERT (its date), the row
\* was counted as a failure, the second row was still processed and inserted,
\* and the function has ended.
C5_ErrorRowThenInsert ==
  /\ pc = "commit_people" /\ Len(peopleFile.rows) = 2
  /\ ~peopleFile.rows[1].date_ok
  /\ Lower(Strip(peopleFile.rows[1].place_of_birth)) \in DOMAIN city_to_id_mapping
  /\ failed_inserts = 1 /\ successful_inserts = 1
  /\ people_ret.kind = "None"

\* C6: in load_places_data, when the statement for a valid place row has
\* run, the store holds exactly one place with the row's natural key (city,
\* county, country); if a place with that key was there already the table is
\* as it was (the second upsert stores nothing); the lookup mapping resolves
\* the row's lower-cased city to the key of that stored place; and every
\* entry of the mapping is the key of a stored place of that city.
C6_UpsertKeepsOnePlace ==
  [][ ( /\ pc = "places_loop" /\ pc' = "places_loop"
        /\ row <= Len(placesFile.rows) )
      => LET r == placesFile.rows[row]
             city == Strip(r.city)
             county == IF r.county = NaN THEN NULL ELSE Strip(r.county)
             country == Strip(r.country)
             stored(tbl) == { p \in tbl : /\ p.city = city
                                          /\ p.county = county
                                          /\ p.country = country }
         IN /\ Cardinality(stored(places')) = 1
            /\ stored(places) # {} => places' = places
            /\ places \subseteq places'
            /\ Cardinality(places') <= Cardinality(places) + 1
            /\ Lower(city) \in DOMAIN city_to_id_mapping'
            /\ \A p \in stored(places') : city_to_id_mapping'[Lower(city)] = p.id
            /\ \A k \in DOMAIN city_to_id_mapping' :
                 \E p \in places' : p.id = city_to_id_mapping'[k] /\ Lower(p.city) = k
            /\ \A p, q \in places' : p.id = q.id => p = q ]_vars

\* C6's case: two rows that differ as written but have the same natural key
\* once trimmed have both been upserted: one place is stored and the mapping
\* has the one entry "a" with that place's key.
C6_SameKeyTwice ==
  /\ pc = "places_loop" /\ row = 3
  /\ placesFile.rows[1] # placesFile.rows[2]
  /\ Strip(placesFile.rows[1].city) = Strip(placesFile.rows[2].city)
  /\ placesFile.rows[1].county # NaN
  /\ Strip(placesFile.rows[1].county) = Strip(placesFile.rows[2].county)
  /\ Strip(placesFile.rows[1].country) = Strip(placesFile.rows[2].country)
  /\ Cardinality(places) = 1
  /\ DOMAIN city_to_id_mapping = { <<"a">> }
  /\ \E p \in places : p.id = city_to_id_mapping[<<"a">>]

\* C7: when an ingest run that follows a completed ingest run on the same
\* files completes, the place count and the person count it reports are those
\* the run before it reported, whatever the store held before the first run;
\* and they are the numbers of rows the store holds.
C7_ReloadIsIdempotent ==
  ( /\ proc = "ingest" /\ pc = "exited" /\ exitCode = 0
    /\ last.set )
  => /\ place_count = last.places
     /\ people_count = last.people
     /\ place_count = Cardinality(cplaces)
     /\ people_count = Cardinality(cpeople)

\* C7's case: two runs in succession completed on files of two places and two
\* people, one of them refused; the second run reports the first's counts,
\* 2 places and 1 person.
C7_SecondRunSameCounts ==
  /\ proc = "ingest" /\ pc = "exited" /\ exitCode = 0
  /\ run = 2 /\ last.set
  /\ last.places = 2 /\ place_count = 2
  /\ last.people = 1 /\ people_count = 1
  /\ failed_inserts = 1

\* The sum of the values of a mapping.
RECURSIVE SumOf(_)
SumOf(f) ==
  IF DOMAIN f = {} THEN 0
  ELSE LET k == CHOOSE x \in DOMAIN f : TRUE
       IN f[k] + SumOf([x \in DOMAIN f \ {k} |-> f[x]])

\* C8: the mapping generate_summary_output returns has exactly the countries
\* of the stored places as its keys, each with the number of stored people
\* born in a place of that country (0 for a country no person references); the
\* counts add up to the number of stored people, which after a completed
\* ingest run is the number of person rows that run inserted.
C8_SummaryIsComplete ==
  ( proc = "output" /\ pc = "write_json" )
  => /\ DOMAIN summary_data = { p.country : p \in cplaces }
     /\ \A c \in DOMAIN summary_data :
          /\ summary_data[c] =
               Cardinality({ q \in cpeople :
                             \E p \in cplaces : p.id = q.place_of_birth_id /\ p.country = c })
          /\ (~ \E q \in cpeople, p \in cplaces :
                  p.id = q.place_of_birth_id /\ p.country = c)
             => summary_data[c] = 0
     /\ SumOf(summary_data) = Cardinality(cpeople)
     /\ last.set => SumOf(summary_data) = last.inserted

\* C8's case: after a completed ingest run that stored places of two
\* countries and inserted two people, all born in one of them, the summary has
\* both countries, one of them with count 0.
C8_CountryWithoutPeople ==
  /\ proc = "output" /\ pc = "write_json" /\ last.set /\ last.inserted = 2
  /\ DOMAIN summary_data = { <<"F">>, <<"S">> }
  /\ summary_data[<<"F">>] = 0 /\ summary_data[<<"S">>] = 2

RunOrder(a, b) ==
  <<"fk_off", "truncate_people", "truncate_places", "fk_on", "commit">>
  \o [i \in 1..a |-> "upsert_place"] \o <<"commit">>
  \o [i \in 1..b |-> "insert_person"]
  \o <<"commit", "count_places", "count_people">>

\* How many times op is in log.
Occurrences(log, op) == Cardinality({ i \in 1..Len(log) : log[i] = op })

\* C10: the statements an ingest run has sent to the store are always a
\* beginning of: checks off, clear people, clear places, checks on, commit,
\* the place upserts, commit, the person inserts, commit, count places, count
\* people; none is sent before the wait returned and the connection was made.
\* FOREIGN_KEY_CHECKS is 0 only between the first statement of the clear and
\* its last, so it is 1 when the clear is committed and while rows are
\* loaded; and while people are loaded the places the session sees, which
\* are all a person row can reference, are committed.
C10_StoreOperationsInOrder ==
  proc = "ingest" =>
    /\ oplog = SubSeq(RunOrder(Occurrences(oplog, "upsert_place"),
                               Occurrences(oplog, "insert_person")),
                      1, Len(oplog))
    /\ oplog # <<>> => (conn # "unbound" /\ exc # "Unavailable")
    /\ fk = 0 => /\ pc \in {"trunc_people", "trunc_places", "fk_on", "except"}
                 /\ Len(oplog) \in 1..4
    /\ pc \in {"commit_clear", "load_places", "places_loop", "commit_places",
               "load_people", "people_loop", "commit_people"} => fk = 1
    /\ pc \in {"load_people", "people_loop"} =>
         /\ cplaces = places
         /\ Occurrences(oplog, "commit") = 2
    /\ pc \in {"count_places", "count_people"} =>
         /\ cpeople = people /\ cplaces = places
         /\ Occurrences(oplog, "commit") = 3
    /\ Occurrences(oplog, "insert_person") > 0 =>
         \A q \in people : \E p \in cplaces : p.id = q.place_of_birth_id

\* C10's case: a run that upserted two places and inserted two people has
\* sent its last statement, the count of people.
C10_WholeRun ==
  /\ proc = "ingest" /\ pc = "finally"
  /\ oplog = RunOrder(2, 2)
  /\ Cardinality(cpeople) = 2

====
